---- MODULE Spec2Model ----
(***************************************************************************)
(* Model of scripts/create-corpus.py: main() runs write_streaming_dataset  *)
(* three times on one output file and one shared set of seen hashes.       *)
(*                                                                         *)
(* A text is kept run-length encoded: a sequence of <<character, count>>   *)
(* pairs in which adjacent pairs have different characters and every count *)
(* is positive.  All string operations are computed on that encoding, so   *)
(* the thresholds MIN_CHARS and MAX_CHARS keep their values of the script. *)
(***************************************************************************)
EXTENDS Integers, Sequences, FiniteSets

\* ------------------------------------------------------------------------
\* Constants of the script
\* ------------------------------------------------------------------------
TARGET_SIZE == 1000000000
MIN_CHARS == 50
MAX_CHARS == 50000

\* Number of write_streaming_dataset calls made by main()
NumCalls == 3

\* Longest source (number of examples a dataset yields) explored
MaxPulls == 2

\* ------------------------------------------------------------------------
\* Characters and strings
\* ------------------------------------------------------------------------
Whitespace == {"SP", "LF", "CR"}

\* str.lower() on one character
LowerChar(c) ==
    CASE c = "A" -> "a"
      [] c = "Eacute" -> "eacute"
      [] OTHER -> c

\* UTF-8 encoding of one character
Utf8(c) ==
    CASE c = "a" -> <<97>>
      [] c = "A" -> <<65>>
      [] c = "b" -> <<98>>
      [] c = "eacute" -> <<195, 169>>
      [] c = "Eacute" -> <<195, 137>>
      [] c = "SP" -> <<32>>
      [] c = "LF" -> <<10>>
      [] c = "CR" -> <<13>>

RECURSIVE Canon(_)
\* canonical run-length form: no empty run, no two adjacent runs of one character
Canon(t) ==
    IF t = <<>> THEN <<>>
    ELSE LET h == Head(t)
             r == Canon(Tail(t))
         IN  IF h[2] = 0 THEN r
             ELSE IF r # <<>> /\ r[1][1] = h[1]
                  THEN <<(<<h[1], h[2] + r[1][2]>>)>> \o Tail(r)
                  ELSE <<h>> \o r

\* str.strip(): leading and trailing whitespace removed
strip(t) ==
    LET keep == {i \in 1..Len(t) : t[i][1] \notin Whitespace}
    IN  IF keep = {} THEN <<>>
        ELSE LET lo == CHOOSE i \in keep : \A j \in keep : i <= j
                 hi == CHOOSE i \in keep : \A j \in keep : i >= j
             IN  SubSeq(t, lo, hi)

\* str.replace("\r\n", "\n"): the CR that directly precedes an LF is dropped
replace_crlf(t) ==
    Canon([i \in 1..Len(t) |->
             IF t[i][1] = "CR" /\ i < Len(t) /\ t[i + 1][1] = "LF"
             THEN <<"CR", t[i][2] - 1>>
             ELSE t[i]])

\* str.lower()
lower(t) == Canon([i \in 1..Len(t) |-> <<LowerChar(t[i][1]), t[i][2]>>])

RECURSIVE len(_)
\* len() of a str: number of characters
len(t) == IF t = <<>> THEN 0 ELSE Head(t)[2] + len(Tail(t))

\* str.encode("utf-8"): the bytes, run-length encoded per character
encode(t) == [i \in 1..Len(t) |-> <<Utf8(t[i][1]), t[i][2]>>]

RECURSIVE bytes_len(_)
\* len() of a bytes object
bytes_len(b) == IF b = <<>> THEN 0 ELSE Len(Head(b)[1]) * Head(b)[2] + bytes_len(Tail(b))

\* text + "\n"
concat(t, u) == Canon(t \o u)

\* as normalize, without the case folding
normalizeKeepCase(text) == strip(text)

normalize(text) == lower(strip(text))

\* sha1 hex digest, taken as collision free: the digest stands for the bytes hashed
hash_text(text) == [sha1 |-> encode(text)]

\* ------------------------------------------------------------------------
\* Examples a dataset can yield
\* ------------------------------------------------------------------------
Str(t) == [kind |-> "str", text |-> t]

Examples ==
    { [kind |-> "absent"],                       \* no such field
      [kind |-> "int"],                          \* field holds a number
      Str(<< <<"SP", 3>>, <<"LF", 1>>, <<"SP", 2>> >>),
      Str(<< <<"a", 49>> >>),
      Str(<< <<"a", 50>> >>),
      Str(<< <<"SP", 2>>, <<"A", 50>>, <<"LF", 1>> >>),
      Str(<< <<"Eacute", 49>>, <<"CR", 1>>, <<"LF", 1>>, <<"eacute", 1>> >>),
      Str(<< <<"b", 50>> >>) }

\* texts around the two thresholds
WindowExamples ==
    { Str(<< <<"a", 49>> >>),
      Str(<< <<"a", 50>> >>),
      Str(<< <<"a", 24>>, <<"CR", 1>>, <<"LF", 1>>, <<"a", 24>> >>),
      Str(<< <<"eacute", 30>> >>),
      Str(<< <<"Eacute", 25000>>, <<"CR", 1>>, <<"LF", 1>>, <<"eacute", 24999>> >>),
      Str(<< <<"b", 50001>> >>) }

NoExample == [kind |-> "none"]

\* max_chars arguments: main()'s int(TARGET_SIZE * 0.3), and small ones that the
\* examples reach
Quotas == {0, 100, (TARGET_SIZE \div 10) * 3}

\* ------------------------------------------------------------------------
\* State
\* ------------------------------------------------------------------------
VARIABLES
    pc,            \* "main", "loop", "return", "done", "raised"
    call,          \* number of write_streaming_dataset calls started
    max_chars,     \* argument of the current call
    example,       \* loop variable of the current call
    pulled,        \* number of examples the current call took from its dataset
    exhausted,     \* the dataset of the current call ended
    written,
    kept,
    seen_hashes,
    file,          \* writes to the output file: data, and the call and example it is from
    total_written,
    total_kept,
    returns,       \* the (written, kept) pairs returned to main() so far
    earlier        \* stripped, lower-cased form of the texts taken from the datasets so far

vars == <<pc, call, max_chars, example, pulled, exhausted, written, kept,
          seen_hashes, file, total_written, total_kept, returns, earlier>>

\* example.get(field, None)
get(ex) == IF ex.kind = "absent" THEN NoExample ELSE ex

\* text.strip().replace("\r\n", "\n")
clean(t) == replace_crlf(strip(t))

\* strip and replace are methods of str
HasStrMethods(ex) == ex.kind = "str"

\* as LengthFiltered, with both thresholds exclusive
LengthFilteredExclusive(text) == len(text) <= MIN_CHARS \/ len(text) >= MAX_CHARS

LengthFiltered(text) == len(text) < MIN_CHARS \/ len(text) > MAX_CHARS

IsDuplicate(h, seen) == h \in seen

\* as QuotaReached, against the target of the run instead of the quota of the call
QuotaReachedTarget(w, quota) == w >= TARGET_SIZE

\* as QuotaReached, stopping only past the quota
QuotaReachedStrict(w, quota) == w > quota

QuotaReached(w, quota) == w >= quota

\* written += len(text.encode("utf-8"))
Counted(text) == bytes_len(encode(text))

\* as FileWrite, at the start of the file
FileWriteFront(f, text) ==
    <<[data |-> concat(text, << <<"LF", 1>> >>), call |-> call, pos |-> pulled + 1]>> \o f

\* file_handle.write(text + "\n")
FileWrite(f, text) ==
    Append(f, [data |-> concat(text, << <<"LF", 1>> >>), call |-> call, pos |-> pulled + 1])

\* as Continue, leaving the loop
ContinueAsBreak == "return"

\* continue: on to the next example
Continue == "loop"

\* as PassSeen, with a new set for every call
PassSeenFresh(seen) == {}

\* main() hands its one set to every call
PassSeen(seen) == seen

\* as AddTotal, assigning instead of adding
AddTotalAssign(total, x) == x

\* total += x
AddTotal(total, x) == total + x

Init ==
    /\ pc = "main"
    /\ call = 0
    /\ max_chars = 0
    /\ example = NoExample
    /\ pulled = 0
    /\ exhausted = FALSE
    /\ written = 0
    /\ kept = 0
    /\ seen_hashes = {}
    /\ file = <<>>
    /\ total_written = 0
    /\ total_kept = 0
    /\ returns = <<>>
    /\ earlier = {}

\* main() calls write_streaming_dataset on the next dataset
Call(quota) ==
    /\ pc = "main"
    /\ call < NumCalls
    /\ pc' = "loop"
    /\ call' = call + 1
    /\ max_chars' = quota
    /\ example' = NoExample
    /\ pulled' = 0
    /\ exhausted' = FALSE
    /\ written' = 0
    /\ kept' = 0
    /\ seen_hashes' = PassSeen(seen_hashes)
    /\ UNCHANGED <<file, total_written, total_kept, returns, earlier>>

\* one pass of the for loop body, on the next example of the dataset
Iteration(ex) ==
    /\ pc = "loop"
    /\ pulled < MaxPulls
    /\ example' = ex
    /\ pulled' = pulled + 1
    /\ earlier' = IF ex.kind = "str" THEN earlier \cup {lower(strip(ex.text))} ELSE earlier
    /\ UNCHANGED <<call, max_chars, exhausted, total_written, total_kept, returns>>
    /\ LET text0 == get(ex)
       IN  IF text0 = NoExample
           THEN /\ pc' = Continue
                /\ UNCHANGED <<written, kept, seen_hashes, file>>
           ELSE IF ~HasStrMethods(text0)
           THEN /\ pc' = "raised"
                /\ UNCHANGED <<written, kept, seen_hashes, file>>
           ELSE LET text == clean(text0.text)
                    h == hash_text(normalize(text))
                IN  IF text = <<>> \/ LengthFiltered(text) \/ IsDuplicate(h, seen_hashes)
                    THEN /\ pc' = Continue
                         /\ UNCHANGED <<written, kept, seen_hashes, file>>
                    ELSE /\ seen_hashes' = seen_hashes \cup {h}
                         /\ file' = FileWrite(file, text)
                         /\ written' = written + Counted(text)
                         /\ kept' = kept + 1
                         /\ pc' = IF QuotaReached(written', max_chars)
                                  THEN "return" ELSE "loop"

\* the dataset has no further example: the for loop ends
Exhausted ==
    /\ pc = "loop"
    /\ pc' = "return"
    /\ exhausted' = TRUE
    /\ UNCHANGED <<call, max_chars, example, pulled, written, kept, seen_hashes,
                   file, total_written, total_kept, returns, earlier>>

\* return written, kept; main() adds them to its totals
Return ==
    /\ pc = "return"
    /\ total_written' = AddTotal(total_written, written)
    /\ total_kept' = AddTotal(total_kept, kept)
    /\ returns' = Append(returns, [w |-> written, k |-> kept])
    /\ pc' = IF call = NumCalls THEN "done" ELSE "main"
    /\ example' = NoExample
    /\ UNCHANGED <<call, max_chars, pulled, exhausted, written, kept, seen_hashes,
                   file, earlier>>

Step(pool) ==
    \/ \E quota \in Quotas : Call(quota)
    \/ \E ex \in pool : Iteration(ex)
    \/ Exhausted
    \/ Return

Next == Step(Examples)

Spec == Init /\ [][Next]_vars

NextWindow == Step(WindowExamples)

SpecWindow == Init /\ [][NextWindow]_vars

\* ------------------------------------------------------------------------
\* Properties
\* ------------------------------------------------------------------------
\* the text of a write, without the newline that ends it
TextOf(e) ==
    LET d == e.data
    IN  Canon([i \in 1..Len(d) |-> IF i = Len(d) THEN <<d[i][1], d[i][2] - 1>> ELSE d[i]])

\* stripped, case-folded form of a text
CaseFolded(text) == lower(strip(text))

\* fingerprint of a text
Fingerprint(text) == [sha1 |-> encode(CaseFolded(text))]

InWindow(n) == MIN_CHARS <= n /\ n <= MAX_CHARS

\* the writes of call c, in file order
WritesOf(c) == SelectSeq(file, LAMBDA e : e.call = c)

RECURSIVE Sum(_)
\* sum of a sequence of numbers
Sum(q) == IF q = <<>> THEN 0 ELSE Head(q) + Sum(Tail(q))

SumSeq(q, F(_)) == Sum([i \in 1..Len(q) |-> F(q[i])])

DataBytes(e) == bytes_len(encode(e.data))
TextBytes(e) == bytes_len(encode(TextOf(e)))
RetW(r) == r.w
RetK(r) == r.k

\* bytes call c appended to the file
AppendedBy(c) == SumSeq(WritesOf(c), DataBytes)

InCall == pc \in {"loop", "return"}

\* an Iteration step: the loop body ran on example'
Pulls == pc = "loop" /\ pulled' = pulled + 1

LinesWith(f, fp) == Cardinality({i \in 1..Len(f) : Fingerprint(TextOf(f[i])) = fp})

\* C1: no two writes of a run have the same fingerprint, whichever calls made them
C1_NoDuplicateFingerprints ==
    \A i, j \in 1..Len(file) :
        i # j => Fingerprint(TextOf(file[i])) # Fingerprint(TextOf(file[j]))

\* C1 witness: a later call took a text that an earlier call wrote, and skipped it
C1_Witness ==
    /\ pc = "loop"
    /\ example.kind = "str"
    /\ Len(file) = 1
    /\ file[1].call < call
    /\ Fingerprint(TextOf(file[1])) = Fingerprint(clean(example.text))

\* C2 as claimed: the bytes a call appends to the file never exceed its max_chars
C2_QuotaIsUpperBound == InCall => AppendedBy(call) <= max_chars

\* C2 amended: when a call has written twice or more, the texts of all its writes
\* but the last encode to fewer than max_chars bytes (the last write may pass the
\* quota); so a call with quota 0 writes at most once
C2_AllButLastBelowQuota ==
    LET w == WritesOf(call)
    IN  /\ InCall /\ Len(w) >= 2 => SumSeq(SubSeq(w, 1, Len(w) - 1), TextBytes) < max_chars
        /\ InCall /\ max_chars = 0 => Len(w) <= 1

\* C2 witness: a call whose second write took it past its quota
C2_Witness ==
    /\ pc = "return"
    /\ Len(WritesOf(call)) = 2
    /\ AppendedBy(call) > max_chars
    /\ max_chars > 0

\* C3 as claimed: the running total of a call is the number of bytes it appended
C3_CountsAppendedBytes == InCall => written = AppendedBy(call)

\* C4: a call that has written and can still take an example is below its quota, and
\* a call returns only with its dataset exhausted or its total at or over the quota
C4_StopsAtQuota ==
    /\ pc = "loop" /\ kept > 0 => written < max_chars
    /\ pc = "return" => exhausted \/ written >= max_chars

\* C4 witness: the call stopped at its quota with its dataset not exhausted
C4_Witness ==
    /\ pc = "return"
    /\ ~exhausted
    /\ pulled < MaxPulls
    /\ kept = 1
    /\ max_chars > 0
    /\ written >= max_chars

\* C5: a text whose fingerprint is new is written exactly when the number of
\* characters of its stripped, line-ending-normalized form is in [MIN_CHARS, MAX_CHARS]
C5_WindowInclusive ==
    [][ Pulls /\ example'.kind = "str"
          /\ Fingerprint(clean(example'.text)) \notin seen_hashes
        => (Len(file') = Len(file) + 1 <=> InWindow(len(clean(example'.text)))) ]_vars

\* C5 witness: a text of MAX_CHARS characters and more than MAX_CHARS bytes was written
C5_Witness ==
    /\ example.kind = "str"
    /\ len(clean(example.text)) = MAX_CHARS
    /\ bytes_len(encode(clean(example.text))) > MAX_CHARS
    /\ file # <<>>
    /\ TextOf(file[Len(file)]) = clean(example.text)
    /\ file[Len(file)].pos = pulled

\* C6 as claimed: once the second of two entries with the same stripped, case-folded
\* text is processed, exactly one of them is written
C6_ExactlyOneWritten ==
    [][ Pulls /\ example'.kind = "str" /\ CaseFolded(example'.text) \in earlier
        => LinesWith(file', Fingerprint(clean(example'.text))) = 1 ]_vars

\* C6 amended: once the second of two such entries is processed, the file holds one
\* line with their fingerprint if the length of their text is in the window, and
\* none if it is not
C6_OneIfInWindow ==
    [][ Pulls /\ example'.kind = "str" /\ CaseFolded(example'.text) \in earlier
        => LinesWith(file', Fingerprint(clean(example'.text)))
             = IF InWindow(len(clean(example'.text))) THEN 1 ELSE 0 ]_vars

\* C6 witness: the text just taken differs in case from a line written before it,
\* has its fingerprint, and was not written
C6_Witness ==
    /\ pc = "loop"
    /\ example.kind = "str"
    /\ \E i \in 1..Len(file) :
          /\ Fingerprint(TextOf(file[i])) = Fingerprint(clean(example.text))
          /\ TextOf(file[i]) # clean(example.text)
          /\ (file[i].call < call \/ file[i].pos < pulled)
    /\ LinesWith(file, Fingerprint(clean(example.text))) = 1

Before(e, f) == e.call < f.call \/ (e.call = f.call /\ e.pos < f.pos)

\* C7: the file is in the order the examples were taken (by call, then by position
\* in the dataset), and every step leaves the file alone or appends the text it took
C7_PullOrder ==
    /\ [](\A i, j \in 1..Len(file) : i < j => Before(file[i], file[j]))
    /\ [][ \/ file' = file
           \/ /\ Pulls
              /\ example'.kind = "str"
              /\ Len(file') = Len(file) + 1
              /\ SubSeq(file', 1, Len(file)) = file
              /\ TextOf(file'[Len(file')]) = clean(example'.text) ]_vars

\* C7 witness: two writes of one call, then a write of a later call
C7_Witness ==
    /\ Len(file) = 3
    /\ file[1].call = file[2].call
    /\ file[2].call < file[3].call

\* C8 as claimed: no example makes a call raise
C8_NeverRaises == pc # "raised"

Skippable(ex, seen) ==
    \/ ex.kind = "absent"
    \/ /\ ex.kind = "str"
       /\ \/ clean(ex.text) = <<>>
          \/ ~InWindow(len(clean(ex.text)))
          \/ Fingerprint(clean(ex.text)) \in seen

\* C9: a skipped example changes neither seen_hashes nor the file nor the two
\* counters, and the loop goes on
C9_SkipChangesNothing ==
    [][ Pulls /\ Skippable(example', seen_hashes)
        => /\ seen_hashes' = seen_hashes
           /\ file' = file
           /\ written' = written
           /\ kept' = kept
           /\ pc' = "loop" ]_vars

\* C9 witness: a whitespace-only text was skipped after a write of the same call
C9_Witness ==
    /\ pc = "loop"
    /\ example.kind = "str"
    /\ strip(example.text) = <<>>
    /\ kept = 1
    /\ pulled = 2

\* C10: seen_hashes only grows and is the set of fingerprints of the lines written;
\* after the last call the totals are the sums of the returned pairs, and the total
\* kept is the size of seen_hashes and the number of lines
C10_SeenIsWritten ==
    /\ [](seen_hashes = {Fingerprint(TextOf(file[i])) : i \in 1..Len(file)})
    /\ [][seen_hashes \subseteq seen_hashes']_vars
    /\ [](pc = "done" =>
            /\ Len(returns) = NumCalls
            /\ total_kept = SumSeq(returns, RetK)
            /\ total_written = SumSeq(returns, RetW)
            /\ total_kept = Cardinality(seen_hashes)
            /\ total_kept = Len(file))

\* C10 witness: the run ended with writes by two calls
C10_Witness ==
    /\ pc = "done"
    /\ Len(file) = 3
    /\ returns[1].k = 1
    /\ returns[3].k = 2

====
